---- MODULE Spec2Model ----
(***************************************************************************)
(* pysigma: the aggregation state store (pysigma/aggregation.py), the     *)
(* aggregation evaluator, and the predicates that the condition compiler  *)
(* (pysigma/parser.py) builds from a rule's condition.                    *)
(*                                                                         *)
(* Time is counted in whole seconds.  A python value is a record          *)
(* [k |-> kind, v |-> number]; a dict is a function whose DOMAIN is the   *)
(* set of keys present.                                                    *)
(***************************************************************************)
EXTENDS Integers, Sequences, FiniteSets, TLC

VARIABLES rules, feed, events, timestamps, serial, now, last, matches, threads

vars == <<rules, feed, events, timestamps, serial, now, last, matches, threads>>

(***************************************************************************)
(* Bounds of the model.                                                    *)
(***************************************************************************)
MaxEvents == 4
MaxStoreEvents == 3
MaxTime == 2
MaxThreshold == 3

(***************************************************************************)
(* Python values.                                                          *)
(***************************************************************************)
None == [k |-> "none", v |-> 0]
IntVal(n) == [k |-> "int", v |-> n]
\* a str spelling the number n, e.g. '400'
NumStr(n) == [k |-> "numstr", v |-> n]
\* a non-empty str that spells neither a number nor a timestamp
BadStr == [k |-> "badstr", v |-> 0]
\* a str in the format '%Y-%m-%d %H:%M:%S.%f' naming the instant t
TimeStr(t) == [k |-> "timestr", v |-> t]
\* a datetime object
DateTime(t) == [k |-> "datetime", v |-> t]

\* the empty str
EmptyStr == [k |-> "emptystr", v |-> 0]

\* an int whose magnitude is beyond the largest float, e.g. 10 ** 400
BigInt == [k |-> "bigint", v |-> 0]

IsStr(x) == x.k \in {"numstr", "badstr", "timestr", "emptystr"}

\* python truthiness, as `if ts:` applies it
Truthy(x) ==
    CASE x.k = "none" -> FALSE
      [] x.k = "emptystr" -> FALSE
      [] x.k = "int" -> x.v # 0
      [] OTHER -> TRUE

\* dict.get(key): None when the key is absent
Get(d, key) == IF key \in DOMAIN d THEN d[key] ELSE None

\* defaultdict(list)[key] read: the empty list when the key is absent
Lookup(d, key) == IF key \in DOMAIN d THEN d[key] ELSE <<>>

\* a store that keeps one list for all the keys
PutShared(d, key, value) == [x \in (DOMAIN d) \cup {key} |-> value]

\* d[key] = value
Put(d, key, value) ==
    [x \in (DOMAIN d) \cup {key} |-> IF x = key THEN value ELSE d[x]]

\* del d[key]
Del(d, key) == [x \in (DOMAIN d) \ {key} |-> d[x]]

EmptyDict == [x \in {} |-> <<>>]

\* an event dict with the four fields the rules read
Event(id, utc, ip, val) ==
    [EventID |-> id, UtcTime |-> utc, src_ip |-> ip, bytes |-> val]

NoEvent == Event(None, None, None, None)

(***************************************************************************)
(* The store, threaded through one call: the two dicts of AggregationState,*)
(* the serial of the next insertion (a history variable: entry i of the   *)
(* event list and entry i of the timestamp list carry the serial of the   *)
(* add_event call that appended them), whether an exception is            *)
(* propagating, and the log of the store operations the call has made.    *)
(***************************************************************************)
Store(ev, ts, sn) ==
    [events |-> ev, timestamps |-> ts, serial |-> sn, exc |-> FALSE, log |-> <<>>]

LogEntry(op, rid, sn, n, res) ==
    [op |-> op, rid |-> rid, sn |-> sn, n |-> n, res |-> res]

\* add_event's timestamp: parsed from a str, taken as is from another truthy
\* value, the wall clock when missing, falsy or not parseable
TimestampOf(ts, clock) ==
    IF Truthy(ts)
    THEN IF IsStr(ts)
         THEN IF ts.k = "timestr"
              THEN [k |-> "datetime", t |-> ts.v]
              ELSE [k |-> "datetime", t |-> clock]
         ELSE [k |-> ts.k, t |-> ts.v]
    ELSE [k |-> "datetime", t |-> clock]

\* an add_event that records a timestamp only when UtcTime parses
add_event_parsed_only(st, rule_id, event, clock) ==
    IF st.exc THEN st
    ELSE LET stamp == TimestampOf(Get(event, "UtcTime"), clock)
         IN [st EXCEPT
               !.events = Put(@, rule_id,
                   Append(Lookup(@, rule_id), [sn |-> st.serial, ev |-> event])),
               !.timestamps = IF Get(event, "UtcTime").k = "timestr"
                   THEN Put(@, rule_id, Append(Lookup(@, rule_id),
                          [sn |-> st.serial, k |-> stamp.k, t |-> stamp.t]))
                   ELSE Put(@, rule_id, Lookup(@, rule_id)),
               !.serial = @ + 1,
               !.log = Append(@, LogEntry("add_event", rule_id, st.serial, 0, FALSE))]

add_event(st, rule_id, event, clock) ==
    IF st.exc THEN st
    ELSE LET stamp == TimestampOf(Get(event, "UtcTime"), clock)
         IN [st EXCEPT
               !.events = Put(@, rule_id,
                   Append(Lookup(@, rule_id), [sn |-> st.serial, ev |-> event])),
               !.timestamps = Put(@, rule_id,
                   Append(Lookup(@, rule_id),
                          [sn |-> st.serial, k |-> stamp.k, t |-> stamp.t])),
               !.serial = @ + 1,
               !.log = Append(@, LogEntry("add_event", rule_id, st.serial, 0, FALSE))]

(***************************************************************************)
(* Timeframes are strings, modelled as sequences of characters.            *)
(***************************************************************************)
NoTimeframe == <<>>

DigitChars == <<"0", "1", "2", "3", "4", "5", "6", "7", "8", "9">>

IsDigit(c) == \E i \in 1..10 : DigitChars[i] = c

DigitValue(c) == (CHOOSE i \in 1..10 : DigitChars[i] = c) - 1

RECURSIVE StripLeft(_)
StripLeft(s) == IF s # <<>> /\ Head(s) = " " THEN StripLeft(Tail(s)) ELSE s

RECURSIVE StripRight(_)
StripRight(s) ==
    IF s # <<>> /\ s[Len(s)] = " " THEN StripRight(SubSeq(s, 1, Len(s) - 1)) ELSE s

\* str.strip()
Strip(s) == StripRight(StripLeft(s))

RECURSIVE DigitsValue(_)
DigitsValue(s) ==
    IF s = <<>> THEN 0
    ELSE 10 * DigitsValue(SubSeq(s, 1, Len(s) - 1)) + DigitValue(s[Len(s)])

AllDigits(s) == s # <<>> /\ \A i \in 1..Len(s) : IsDigit(s[i])

\* int(text): [k |-> "ok", v |-> n], or ValueError
IntOf(text) ==
    LET s == Strip(text)
    IN IF AllDigits(s) THEN [k |-> "ok", v |-> DigitsValue(s)]
       ELSE IF s # <<>> /\ s[1] = "-" /\ AllDigits(Tail(s))
            THEN [k |-> "ok", v |-> 0 - DigitsValue(Tail(s))]
       ELSE IF s # <<>> /\ s[1] = "+" /\ AllDigits(Tail(s))
            THEN [k |-> "ok", v |-> DigitsValue(Tail(s))]
       ELSE [k |-> "error", v |-> 0]

SecondsPerMinute == 60
SecondsPerHour == 3600
SecondsPerDay == 86400
DaysPerMonth == 30

\* a suffix table that takes the suffix without regard to case
UnitSecondsAnyCase(c) ==
    CASE c \in {"M", "m"} -> SecondsPerMinute
      [] c \in {"D", "d"} -> SecondsPerDay
      [] c \in {"H", "h"} -> SecondsPerHour
      [] c \in {"S", "s"} -> 1
      [] OTHER -> 0

\* seconds in one unit of a timeframe suffix, 0 for an unknown suffix
UnitSeconds(c) ==
    CASE c = "M" -> DaysPerMonth * SecondsPerDay
      [] c = "d" -> SecondsPerDay
      [] c = "h" -> SecondsPerHour
      [] c = "m" -> SecondsPerMinute
      [] c = "s" -> 1
      [] OTHER -> 0

\* [k |-> "ok", v |-> seconds], [k |-> "none"] (no expiry) or
\* [k |-> "error"] (int() raised ValueError)
_parse_timeframe(timeframe) ==
    IF timeframe = <<>> THEN [k |-> "none", v |-> 0]
    ELSE LET tf == Strip(timeframe)
         IN IF tf = <<>> \/ UnitSeconds(tf[Len(tf)]) = 0
            THEN [k |-> "none", v |-> 0]
            ELSE LET n == IntOf(SubSeq(tf, 1, Len(tf) - 1))
                 IN IF n.k = "error" THEN [k |-> "error", v |-> 0]
                    ELSE [k |-> "ok", v |-> n.v * UnitSeconds(tf[Len(tf)])]

Min2(a, b) == IF a < b THEN a ELSE b

\* the entries of s at the positions 1..n that are in keep, in order
RECURSIVE Pick(_, _, _)
Pick(s, n, keep) ==
    IF n = 0 THEN <<>>
    ELSE IF n \in keep THEN Append(Pick(s, n - 1, keep), s[n])
         ELSE Pick(s, n - 1, keep)

\* a cleanup whose loop starts at the second pair
cleanup_old_events_skip_first(st, rule_id, timeframe, clock) ==
    IF st.exc THEN st
    ELSE IF timeframe = <<>> \/ rule_id \notin DOMAIN st.timestamps THEN st
    ELSE LET time_limit == _parse_timeframe(timeframe)
             evs == Lookup(st.events, rule_id)
             tss == Lookup(st.timestamps, rule_id)
             n == Min2(Len(evs), Len(tss))
         IN IF time_limit.k = "error" THEN [st EXCEPT !.exc = TRUE]
            ELSE IF time_limit.k = "none" THEN st
            ELSE LET cutoff_time == clock - time_limit.v
                     keep == {i \in 2..n : tss[i].t >= cutoff_time}
                 IN [st EXCEPT
                       !.events = Put(@, rule_id, Pick(evs, n, keep)),
                       !.timestamps = Put(@, rule_id, Pick(tss, n, keep)),
                       !.log = Append(@, LogEntry("cleanup", rule_id, 0,
                                                  n - Cardinality(keep), FALSE))]

\* a cleanup that filters the events and keeps every timestamp
cleanup_old_events_keep_stamps(st, rule_id, timeframe, clock) ==
    IF st.exc THEN st
    ELSE IF timeframe = <<>> \/ rule_id \notin DOMAIN st.timestamps THEN st
    ELSE LET time_limit == _parse_timeframe(timeframe)
             evs == Lookup(st.events, rule_id)
             tss == Lookup(st.timestamps, rule_id)
             n == Min2(Len(evs), Len(tss))
         IN IF time_limit.k = "error" THEN [st EXCEPT !.exc = TRUE]
            ELSE IF time_limit.k = "none" THEN st
            ELSE LET cutoff_time == clock - time_limit.v
                     keep == {i \in 1..n : tss[i].t >= cutoff_time}
                 IN [st EXCEPT
                       !.events = Put(@, rule_id, Pick(evs, n, keep)),
                       !.timestamps = Put(@, rule_id, tss),
                       !.log = Append(@, LogEntry("cleanup", rule_id, 0,
                                                  n - Cardinality(keep), FALSE))]

\* a cleanup that also removes the entries stamped exactly at the cutoff
cleanup_old_events_strict(st, rule_id, timeframe, clock) ==
    IF st.exc THEN st
    ELSE IF timeframe = <<>> \/ rule_id \notin DOMAIN st.timestamps THEN st
    ELSE LET time_limit == _parse_timeframe(timeframe)
             evs == Lookup(st.events, rule_id)
             tss == Lookup(st.timestamps, rule_id)
             n == Min2(Len(evs), Len(tss))
         IN IF time_limit.k = "error" THEN [st EXCEPT !.exc = TRUE]
            ELSE IF time_limit.k = "none" THEN st
            ELSE LET cutoff_time == clock - time_limit.v
                     keep == {i \in 1..n : tss[i].t > cutoff_time}
                 IN [st EXCEPT
                       !.events = Put(@, rule_id, Pick(evs, n, keep)),
                       !.timestamps = Put(@, rule_id, Pick(tss, n, keep)),
                       !.log = Append(@, LogEntry("cleanup", rule_id, 0,
                                                  n - Cardinality(keep), FALSE))]

cleanup_old_events(st, rule_id, timeframe, clock) ==
    IF st.exc THEN st
    ELSE IF timeframe = <<>> \/ rule_id \notin DOMAIN st.timestamps THEN st
    ELSE LET time_limit == _parse_timeframe(timeframe)
             evs == Lookup(st.events, rule_id)
             tss == Lookup(st.timestamps, rule_id)
             n == Min2(Len(evs), Len(tss))
         IN IF time_limit.k = "error" THEN [st EXCEPT !.exc = TRUE]
            ELSE IF time_limit.k = "none" THEN st
            \* `ts >= cutoff_time` raises TypeError on a timestamp that is no
            \* datetime; the lists are assigned only after the loop
            ELSE IF \E i \in 1..n : tss[i].k # "datetime"
                 THEN [st EXCEPT !.exc = TRUE,
                                 !.events = Put(@, rule_id, evs)]
            ELSE LET cutoff_time == clock - time_limit.v
                     keep == {i \in 1..n : tss[i].t >= cutoff_time}
                 IN [st EXCEPT
                       !.events = Put(@, rule_id, Pick(evs, n, keep)),
                       !.timestamps = Put(@, rule_id, Pick(tss, n, keep)),
                       !.log = Append(@, LogEntry("cleanup", rule_id, 0,
                                                  n - Cardinality(keep), FALSE))]

\* get_events: reading the defaultdict creates the key
get_events(st, rule_id) ==
    IF st.exc THEN st
    ELSE [st EXCEPT !.events = Put(@, rule_id, Lookup(@, rule_id))]

\* a clear_rule that discards the history of every rule
clear_rule_every_rule(st, rule_id) ==
    IF st.exc THEN st
    ELSE [st EXCEPT !.events = EmptyDict, !.timestamps = EmptyDict,
                    !.log = Append(@, LogEntry("clear_rule", rule_id, 0,
                                       Len(Lookup(st.events, rule_id)), FALSE))]

\* clear_rule; the log entry counts the events discarded
clear_rule(st, rule_id) ==
    IF st.exc THEN st
    ELSE [st EXCEPT !.events = Del(@, rule_id), !.timestamps = Del(@, rule_id),
                    !.log = Append(@, LogEntry("clear_rule", rule_id, 0,
                                       Len(Lookup(st.events, rule_id)), FALSE))]

(***************************************************************************)
(* AggregationEvaluator.  An aggregate is the rational num / den (the      *)
(* float the code computes), den >= 1.  A field name is a string, "" for   *)
(* None.                                                                   *)
(***************************************************************************)
NoField == ""

Rat(num, den) == [num |-> num, den |-> den]

\* float(val) succeeds on a number and on a str spelling one; it raises
\* ValueError on another str and TypeError on a value of another type, which
\* the loop catches
Coercible(val) == val.k \in {"int", "numstr"}

\* float(val) raises OverflowError on an int too large for a float, which
\* the loop does not catch
Overflows(val) == val.k = "bigint"

RECURSIVE SumSeq(_)
SumSeq(s) == IF s = <<>> THEN 0 ELSE Head(s) + SumSeq(Tail(s))

RECURSIVE MinSeq(_)
MinSeq(s) ==
    IF Len(s) = 1 THEN s[1]
    ELSE LET m == MinSeq(Tail(s)) IN IF Head(s) <= m THEN Head(s) ELSE m

RECURSIVE MaxSeq(_)
MaxSeq(s) ==
    IF Len(s) = 1 THEN s[1]
    ELSE LET m == MaxSeq(Tail(s)) IN IF Head(s) >= m THEN Head(s) ELSE m

\* the coerced values of `field` over the entries, in order
RECURSIVE FieldValues(_, _)
FieldValues(entries, field) ==
    IF entries = <<>> THEN <<>>
    ELSE LET val == Get(Head(entries).ev, field)
         IN IF Coercible(val)
            THEN <<val.v>> \o FieldValues(Tail(entries), field)
            ELSE FieldValues(Tail(entries), field)

_compute_aggregation(func_name, field, entries) ==
    IF func_name = "count" THEN Rat(Len(entries), 1)
    ELSE IF field = NoField THEN Rat(0, 1)
    ELSE LET values == FieldValues(entries, field)
         IN IF values = <<>> THEN Rat(0, 1)
            ELSE CASE func_name = "sum" -> Rat(SumSeq(values), 1)
                   [] func_name = "min" -> Rat(MinSeq(values), 1)
                   [] func_name = "max" -> Rat(MaxSeq(values), 1)
                   [] func_name = "avg" -> Rat(SumSeq(values), Len(values))
                   [] OTHER -> Rat(0, 1)

\* whether _compute_aggregation raises: the loop reaches a value on which
\* float() raises OverflowError
ComputeRaises(func_name, field, entries) ==
    /\ func_name # "count"
    /\ field # NoField
    /\ \E i \in 1..Len(entries) : Overflows(Get(entries[i].ev, field))

_compare(value, op, threshold) ==
    CASE op = ">" -> value.num > threshold * value.den
      [] op = "<" -> value.num < threshold * value.den
      [] op = "=" -> value.num = threshold * value.den
      [] OTHER -> FALSE

\* the entries whose group field has the given value
GroupOf(entries, group_by, key) ==
    SelectSeq(entries, LAMBDA x : Get(x.ev, group_by) = key)

GroupKeys(entries, group_by) ==
    {Get(entries[i].ev, group_by) : i \in 1..Len(entries)}

\* current_event=None, and python truthiness as `if current_event:`
\* applies it: None and the empty dict are false
NoCurrentEvent == [none |-> TRUE]

EventTruthy(current_event) ==
    current_event # NoCurrentEvent /\ DOMAIN current_event # {}

\* evaluate without the empty-history short-circuit
EvaluateResultNoShortCircuit(entries, func_name, field, group_by, op, threshold, current_event) ==
    IF group_by # NoField /\ EventTruthy(current_event)
    THEN _compare(_compute_aggregation(func_name, field,
             GroupOf(entries, group_by, Get(current_event, group_by))), op, threshold)
    ELSE _compare(_compute_aggregation(func_name, field, entries), op, threshold)

\* the value evaluate returns, given the retained entries
EvaluateResult(entries, func_name, field, group_by, op, threshold, current_event) ==
    IF entries = <<>> THEN FALSE
    ELSE IF group_by # NoField
    THEN IF EventTruthy(current_event)
         THEN LET current_group == Get(current_event, group_by)
              IN IF current_group \in GroupKeys(entries, group_by)
                 THEN _compare(_compute_aggregation(func_name, field,
                          GroupOf(entries, group_by, current_group)), op, threshold)
                 ELSE FALSE
         ELSE \E key \in GroupKeys(entries, group_by) :
                 _compare(_compute_aggregation(func_name, field,
                          GroupOf(entries, group_by, key)), op, threshold)
    ELSE _compare(_compute_aggregation(func_name, field, entries), op, threshold)

\* the place of a group in the dict `groups`: that of the first event with
\* the key
FirstIndex(entries, group_by, key) ==
    CHOOSE i \in 1..Len(entries) :
        /\ Get(entries[i].ev, group_by) = key
        /\ \A j \in 1..(i - 1) : Get(entries[j].ev, group_by) # key

\* whether evaluate raises while it computes: the aggregate of the one list
\* it computes, or, in the fallback loop, of a group that no satisfying
\* group precedes
EvaluateRaises(entries, func_name, field, group_by, op, threshold, current_event) ==
    IF ~ComputeRaises(func_name, field, entries) THEN FALSE
    ELSE IF group_by # NoField
    THEN IF EventTruthy(current_event)
         THEN LET current_group == Get(current_event, group_by)
              IN /\ current_group \in GroupKeys(entries, group_by)
                 /\ ComputeRaises(func_name, field,
                                  GroupOf(entries, group_by, current_group))
         ELSE \E key \in GroupKeys(entries, group_by) :
                 /\ ComputeRaises(func_name, field, GroupOf(entries, group_by, key))
                 /\ \A k2 \in GroupKeys(entries, group_by) :
                       FirstIndex(entries, group_by, k2) < FirstIndex(entries, group_by, key)
                          => \/ ComputeRaises(func_name, field,
                                              GroupOf(entries, group_by, k2))
                             \/ ~_compare(_compute_aggregation(func_name, field,
                                      GroupOf(entries, group_by, k2)), op, threshold)
    ELSE ComputeRaises(func_name, field, entries)

\* an aggregation clause as evaluate receives it
Params(func_name, field, group_by, op, threshold) ==
    [func |-> func_name, field |-> field, group_by |-> group_by,
     op |-> op, threshold |-> threshold]

\* AggregationEvaluator.evaluate: [res |-> the decision, st |-> the store]
evaluate(st, rule_id, p, timeframe, current_event, clock) ==
    IF st.exc THEN [res |-> FALSE, st |-> st]
    ELSE LET cleaned == IF timeframe # <<>>
                        THEN cleanup_old_events(st, rule_id, timeframe, clock)
                        ELSE st
             st2 == get_events(cleaned, rule_id)
             entries == Lookup(st2.events, rule_id)
             res == EvaluateResult(entries, p.func, p.field, p.group_by,
                                   p.op, p.threshold, current_event)
             raised == EvaluateRaises(entries, p.func, p.field, p.group_by,
                                      p.op, p.threshold, current_event)
         IN IF st2.exc THEN [res |-> FALSE, st |-> st2]
            ELSE [res |-> ~raised /\ res,
                  st |-> [st2 EXCEPT
                            !.exc = raised,
                            !.log = IF raised THEN @
                                    ELSE Append(@, LogEntry("evaluate", rule_id, 0,
                                                            Len(entries), res))]]

(***************************************************************************)
(* Conditions.  A condition is the tree the grammar derives from the       *)
(* condition text, with the single-child and_rule / or_rule / not_rule     *)
(* levels collapsed as the transformer collapses them:                     *)
(*   SearchId(name)            a search identifier                         *)
(*   Not(c)                    not c                                       *)
(*   And(cs), Or(cs)           two or more operands                        *)
(*   XOf(x, pattern)           x of pattern                                *)
(*   Pipe(base, clause)        a pipe_rule: the whole condition, or a      *)
(*                             parenthesised sub-condition                 *)
(* and a clause is NoClause (the text has no "|" part), Agg(...) or        *)
(* Near(c).                                                                *)
(***************************************************************************)
SearchId(name) == [t |-> "search_id", name |-> name]
Not(c) == [t |-> "not", arg |-> c]
And(cs) == [t |-> "and", args |-> cs]
Or(cs) == [t |-> "or", args |-> cs]
XOf(x, pattern) == [t |-> "x_of", x |-> x, pattern |-> pattern]
Pipe(base, clause) == [t |-> "pipe", base |-> base, clause |-> clause]

NoClause == [t |-> "none"]
\* func(field) by group op value, as written: field and group are "" when
\* omitted, value is the number the digits spell
Agg(func, field, group, op, value) ==
    [t |-> "agg", func |-> func, field |-> field, group |-> group,
     op |-> op, value |-> value]
Near(c) == [t |-> "near", cond |-> c]

All == [k |-> "all", v |-> 0]
Number(n) == [k |-> "num", v |-> n]

\* The children lark hands to pipe_rule.  The parser is built with
\* maybe_placeholders=True, so the optional ["|" aggregation_expression]
\* contributes one child when it is absent too: the placeholder None.
PipeArgs(node) == <<node.base, node.clause>>

\* callable(x) for a child of pipe_rule: the None placeholder is not
Callable(clause) == clause.t # "none"

\* FactoryTransformer.aggregation_expression: the parameters the closure
\* _aggregation_check captures
aggregation_expression(clause) ==
    Params(IF clause.func # "" THEN clause.func ELSE "count",
           clause.field,
           clause.group,
           IF clause.op # "" THEN clause.op ELSE ">",
           IF clause.value # 0 THEN clause.value ELSE 1)

(***************************************************************************)
(* Collaborators of the compiler that are not part of this source:         *)
(* sigma_scan.match_search_id and sigma_scan.analyze_x_of, pure functions  *)
(* of (rule, event, ...).  A rule's detection maps each search identifier  *)
(* to the EventID values it accepts.                                       *)
(***************************************************************************)
match_search_id(signature, event, name) ==
    /\ name \in DOMAIN signature.detection
    /\ Get(event, "EventID").v \in signature.detection[name]

analyze_x_of(signature, event, count, selector) ==
    LET names == IF selector = "" THEN DOMAIN signature.detection
                 ELSE {n \in DOMAIN signature.detection : selector \in {n, "*"}}
        hits == {n \in names : match_search_id(signature, event, n)}
    IN IF count.k = "all" THEN hits = names /\ names # {}
       ELSE Cardinality(hits) >= count.v

\* FactoryTransformer.x_of: count is None for "all", selector None for "them"
x_of(signature, event, node) ==
    analyze_x_of(signature, event, node.x,
                 IF node.pattern = "them" THEN "" ELSE node.pattern)

(***************************************************************************)
(* The compiled predicate: Eval(c, signature, event, st, clock) is         *)
(* [res |-> what the closure built for c returns, st |-> the store after]. *)
(***************************************************************************)
Result(res, st) == [res |-> res, st |-> st]

RECURSIVE Eval(_, _, _, _, _)
RECURSIVE EvalFrom(_, _, _, _, _, _, _)
RECURSIVE EvalFromAll(_, _, _, _, _, _, _)

\* a loop that calls every component, and decides afterwards
EvalFromAll(args, i, decided, signature, event, st, clock) ==
    IF i > Len(args) THEN Result(~decided, st)
    ELSE LET r == Eval(args[i], signature, event, st, clock)
             rest == EvalFromAll(args, i + 1, decided, signature, event, r.st, clock)
         IN IF r.st.exc THEN r
            ELSE IF r.res = decided THEN Result(decided, rest.st)
            ELSE rest

\* the loop of _and_operation (decided = FALSE) and _or_operation
\* (decided = TRUE) from component i on: return at the first component whose
\* value is `decided`
EvalFrom(args, i, decided, signature, event, st, clock) ==
    IF i > Len(args) THEN Result(~decided, st)
    ELSE LET r == Eval(args[i], signature, event, st, clock)
         IN IF r.st.exc THEN r
            ELSE IF r.res = decided THEN Result(decided, r.st)
            ELSE EvalFrom(args, i + 1, decided, signature, event, r.st, clock)

_and_operation(args, signature, event, st, clock) ==
    EvalFrom(args, 1, FALSE, signature, event, st, clock)

_or_operation(args, signature, event, st, clock) ==
    EvalFrom(args, 1, TRUE, signature, event, st, clock)

_negate(value, signature, event, st, clock) ==
    LET r == Eval(value, signature, event, st, clock)
    IN IF r.st.exc THEN r ELSE Result(~r.res, r.st)

\* the closure aggregation_expression returns
_aggregation_check(clause, signature, event, st, clock) ==
    evaluate(st, signature.id, aggregation_expression(clause),
             signature.timeframe, event, clock)

\* a near clause that expires the rule's history before it forwards
_near_aggregation_check_expiring(clause, signature, event, st, clock) ==
    Eval(clause.cond, signature, event,
         cleanup_old_events(st, signature.id, signature.timeframe, clock), clock)

\* the closure near_aggregation returns: it forwards the inner condition
_near_aggregation_check(clause, signature, event, st, clock) ==
    Eval(clause.cond, signature, event, st, clock)

aggregation(clause, signature, event, st, clock) ==
    IF clause.t = "near"
    THEN _near_aggregation_check(clause, signature, event, st, clock)
    ELSE _aggregation_check(clause, signature, event, st, clock)

\* a pipe that records the event before it looks at the base condition
_pipe_with_aggregation_eager(args, signature, event, st, clock) ==
    LET st1 == add_event(st, signature.id, event, clock)
        base == Eval(args[1], signature, event, st1, clock)
    IN IF base.st.exc THEN base
       ELSE IF ~base.res THEN Result(FALSE, base.st)
       ELSE IF Callable(args[2])
            THEN aggregation(args[2], signature, event, base.st, clock)
            ELSE Result(TRUE, base.st)

\* a pipe that evaluates the aggregation first and records the event after
_pipe_with_aggregation_late(args, signature, event, st, clock) ==
    LET base == Eval(args[1], signature, event, st, clock)
    IN IF base.st.exc THEN base
       ELSE IF ~base.res THEN Result(FALSE, base.st)
       ELSE IF Callable(args[2])
            THEN LET a == aggregation(args[2], signature, event, base.st, clock)
                 IN Result(a.res, add_event(a.st, signature.id, event, clock))
            ELSE Result(TRUE, add_event(base.st, signature.id, event, clock))

_pipe_with_aggregation(args, signature, event, st, clock) ==
    LET base == Eval(args[1], signature, event, st, clock)
    IN IF base.st.exc THEN base
       ELSE IF ~base.res THEN Result(FALSE, base.st)
       ELSE LET st1 == add_event(base.st, signature.id, event, clock)
            IN IF Callable(args[2])
               THEN aggregation(args[2], signature, event, st1, clock)
               ELSE Result(TRUE, st1)

\* FactoryTransformer.pipe_rule
pipe_rule(args, signature, event, st, clock) ==
    IF Len(args) = 1 THEN Eval(args[1], signature, event, st, clock)
    ELSE _pipe_with_aggregation(args, signature, event, st, clock)

Eval(c, signature, event, st, clock) ==
    CASE c.t = "search_id" -> Result(match_search_id(signature, event, c.name), st)
      [] c.t = "x_of" -> Result(x_of(signature, event, c), st)
      [] c.t = "not" -> _negate(c.arg, signature, event, st, clock)
      [] c.t = "and" -> _and_operation(c.args, signature, event, st, clock)
      [] c.t = "or" -> _or_operation(c.args, signature, event, st, clock)
      [] c.t = "pipe" -> pipe_rule(PipeArgs(c), signature, event, st, clock)

(***************************************************************************)
(* The state.                                                              *)
(*   rules       the loaded rules, by id (fixed once loaded)               *)
(*   feed        the events the environment may send (fixed)               *)
(*   events, timestamps   the two dicts of the process-wide store          *)
(*   serial      the serial of the next insertion into the store           *)
(*   now         the wall clock                                            *)
(*   last        what the last operation was given, found and returned     *)
(*   matches     per rule, the number of predicate invocations since the   *)
(*               last reset whose base condition was true                  *)
(*   threads     per thread, where it is in the call it is making          *)
(***************************************************************************)
Detection == [selection |-> {1, 3}, filter |-> {2, 3}]

Signature(id, timeframe, cond) ==
    [id |-> id, timeframe |-> timeframe, detection |-> Detection, cond |-> cond]

\* clock: the clock value a cleanup_old_events call read.
\* repeatOf: when the operation repeats the one before it (the same call, no
\* other operation between), the clock reading of that earlier call; else -1
Obs(op, rid, event, tf, res, st, repeatOf) ==
    [op |-> op, rid |-> rid, event |-> event, tf |-> tf, res |-> res,
     exc |-> st.exc, log |-> st.log,
     clock |-> IF op = "cleanup" THEN now ELSE 0, repeatOf |-> repeatOf]

Current == Store(events, timestamps, serial)

RuleIds == DOMAIN rules

Ops == {">", "<", "="}

Sec(n) == <<DigitChars[n + 1], "s">>

\* the base condition of a rule's top-level pipe
BaseOf(c) == PipeArgs(c)[1]

BaseResult(r, e) ==
    Eval(BaseOf(rules[r].cond), rules[r], e, Current, now).res

(***************************************************************************)
(* Operations on compiled predicates and on the evaluator.                 *)
(***************************************************************************)
\* condition(rule_obj, event, aggregation_state), as check_event calls it
Predicate(r, e) ==
    /\ serial <= MaxEvents
    /\ \E out \in {Eval(rules[r].cond, rules[r], e, Current, now)} :
          /\ events' = out.st.events
          /\ timestamps' = out.st.timestamps
          /\ serial' = out.st.serial
          /\ last' = Obs("predicate", r, e, rules[r].timeframe, out.res, out.st, -1)
          /\ matches' = IF BaseResult(r, e)
                        THEN [matches EXCEPT ![r] = @ + 1] ELSE matches
    /\ UNCHANGED <<rules, feed, now, threads>>

\* the parameters a caller of evaluate takes from a clause as written
Written(clause) ==
    Params(clause.func, clause.field, clause.group, clause.op, clause.value)

\* AggregationEvaluator(state).evaluate(...) called directly, with the
\* parameters of the rule's clause as written, the rule's timeframe, and
\* current_event given
Evaluate(r, e) ==
    /\ rules[r].cond.clause.t = "agg"
    /\ \E out \in {evaluate(Current, r, Written(rules[r].cond.clause),
                              rules[r].timeframe, e, now)} :
          /\ events' = out.st.events
          /\ timestamps' = out.st.timestamps
          /\ last' = Obs("evaluate", r, e, rules[r].timeframe, out.res, out.st, -1)
    /\ UNCHANGED <<rules, feed, serial, now, matches, threads>>

\* the same call with no current_event
EvaluateNoEvent(r) ==
    /\ rules[r].cond.clause.t = "agg"
    /\ \E out \in {evaluate(Current, r, Written(rules[r].cond.clause),
                              rules[r].timeframe, NoCurrentEvent, now)} :
          /\ events' = out.st.events
          /\ timestamps' = out.st.timestamps
          /\ last' = Obs("evaluate_no_event", r, NoEvent, rules[r].timeframe,
                         out.res, out.st, -1)
    /\ UNCHANGED <<rules, feed, serial, now, matches, threads>>

\* reset_aggregation_state(): a fresh AggregationState
Reset ==
    /\ events' = EmptyDict
    /\ timestamps' = EmptyDict
    /\ serial' = 1
    /\ matches' = [r \in RuleIds |-> 0]
    /\ last' = Obs("reset", "", NoEvent, NoTimeframe, FALSE, Store(EmptyDict, EmptyDict, 1), -1)
    /\ UNCHANGED <<rules, feed, now, threads>>

\* the wall clock advances
Tick ==
    /\ now < MaxTime
    /\ now' = now + 1
    /\ UNCHANGED <<rules, feed, events, timestamps, serial, last, matches, threads>>

NextEval ==
    \/ \E r \in RuleIds, e \in feed : Predicate(r, e)
    \/ \E r \in RuleIds, e \in feed : Evaluate(r, e)
    \/ \E r \in RuleIds : EvaluateNoEvent(r)
    \/ Reset
    \/ Tick

\* the threads that may call into the store, and a thread that is in no call:
\* pc is the statement it executes next, rid and event the arguments of its
\* call, sn the serial of its append, new_events and new_timestamps the
\* locals of cleanup_old_events, res what its last call returned
ThreadIds == {"t1", "t2"}

IdleThread ==
    [pc |-> "idle", rid |-> "", event |-> NoEvent, sn |-> 0,
     new_events |-> <<>>, new_timestamps |-> <<>>, cutoff |-> 0, mark |-> 0,
     mine |-> <<>>, res |-> FALSE]

\* a scenario: the rules loaded and the events sent to them
Scenario(rs, evs) == [rules |-> rs, feed |-> evs]

InitWith(scenarios) ==
    /\ \E sc \in scenarios : rules = sc.rules /\ feed = sc.feed
    /\ events = EmptyDict
    /\ timestamps = EmptyDict
    /\ serial = 1
    /\ now = 0
    /\ matches = [r \in DOMAIN rules |-> 0]
    /\ threads = [t \in ThreadIds |-> IdleThread]
    /\ last = [op |-> "init", rid |-> "", event |-> NoEvent, tf |-> NoTimeframe,
               res |-> FALSE, exc |-> FALSE, log |-> <<>>, clock |-> 0,
               repeatOf |-> -1]

OneRule(timeframe, cond) == [r \in {"r1"} |-> Signature("r1", timeframe, cond)]

Selection == SearchId("selection")

\* `selection | count() OP N` and `selection | count() by src_ip OP N`
CountScenarios ==
    {Scenario(OneRule(NoTimeframe, Pipe(Selection, Agg("count", "", g, op, n))),
              {Event(IntVal(id), TimeStr(0), IntVal(ip), None) :
                  id \in {0, 1}, ip \in IF g = "" THEN {1} ELSE {1, 2}}) :
        g \in {"", "src_ip"}, op \in Ops, n \in 0..MaxThreshold}

InitCount == InitWith(CountScenarios)

SpecCount == InitCount /\ [][NextEval]_vars

(***************************************************************************)
(* Operations of the store itself, called directly.                        *)
(***************************************************************************)
Commit(st) ==
    /\ events' = st.events
    /\ timestamps' = st.timestamps
    /\ serial' = st.serial

AddEvent(r, e) ==
    /\ serial <= MaxStoreEvents
    /\ \E st \in {add_event(Current, r, e, now)} :
          Commit(st) /\ last' = Obs("add_event", r, e, NoTimeframe, FALSE, st, -1)
    /\ UNCHANGED <<rules, feed, now, matches, threads>>

CleanupOldEvents(r, tf) ==
    /\ \E st \in {cleanup_old_events(Current, r, tf, now)} :
          /\ Commit(st)
          /\ last' = Obs("cleanup", r, NoEvent, tf, FALSE, st,
                         IF last.op = "cleanup" /\ last.rid = r /\ last.tf = tf
                         THEN last.clock ELSE -1)
    /\ UNCHANGED <<rules, feed, now, matches, threads>>

GetEvents(r) ==
    /\ \E st \in {get_events(Current, r)} :
          Commit(st) /\ last' = Obs("get_events", r, NoEvent, NoTimeframe, FALSE, st, -1)
    /\ UNCHANGED <<rules, feed, now, matches, threads>>

ClearRule(r) ==
    /\ \E st \in {clear_rule(Current, r)} :
          Commit(st) /\ last' = Obs("clear_rule", r, NoEvent, NoTimeframe, FALSE, st, -1)
    /\ UNCHANGED <<rules, feed, now, matches, threads>>

\* no timeframe, one second, one minute, an unknown suffix, and a known
\* suffix after a prefix that is no number
StoreTimeframes == {NoTimeframe, Sec(1), <<"1", "m">>, <<"1", "x">>, <<"x", "s">>}

Next ==
    \/ \E r \in RuleIds, e \in feed : AddEvent(r, e)
    \/ \E r \in RuleIds, tf \in StoreTimeframes : CleanupOldEvents(r, tf)
    \/ \E r \in RuleIds : GetEvents(r)
    \/ \E r \in RuleIds : ClearRule(r)
    \/ Reset
    \/ Tick

\* two rule ids and events whose UtcTime is missing, parseable or not
\* parseable
StoreScenarios ==
    {Scenario([r \in {"r1", "r2"} |-> Signature(r, NoTimeframe, Pipe(Selection, NoClause))],
              {Event(IntVal(1), utc, None, None) :
                  utc \in {None, TimeStr(0), BadStr}})}

Init == InitWith(StoreScenarios)

Spec == Init /\ [][Next]_vars

(***************************************************************************)
(* The claims about the store (specification Spec).                        *)
(***************************************************************************)
History(r) == Lookup(events, r)
Stamps(r) == Lookup(timestamps, r)

\* the serials of a list's entries, in order
Serials(s) == [i \in 1..Len(s) |-> s[i].sn]

SerialSet(s) == {s[i].sn : i \in 1..Len(s)}

\* C8: in every reachable state and for every rule id, the event list and
\* the timestamp list have the same length, entry i of the one was appended
\* by the same add_event call as entry i of the other (and is the instant
\* spelled by that event's UtcTime when it spells one), and the retained
\* entries are in the order of their insertion.
C8_CoIndexedInOrder ==
    \A r \in RuleIds :
        /\ Len(History(r)) = Len(Stamps(r))
        /\ \A i \in 1..Len(History(r)) :
              /\ i <= Len(Stamps(r))
              /\ History(r)[i].sn = Stamps(r)[i].sn
              /\ Get(History(r)[i].ev, "UtcTime").k = "timestr"
                    => Stamps(r)[i].t = Get(History(r)[i].ev, "UtcTime").v
        /\ \A i, j \in 1..Len(History(r)) :
              i < j => History(r)[i].sn < History(r)[j].sn

\* a cleanup has removed some entries of a rule and left two or more
C8_Witness ==
    /\ last.op = "cleanup"
    /\ last.log # <<>>
    /\ last.log[1].n >= 1
    /\ Len(History(last.rid)) >= 2

\* C9 as stated: a cleanup_old_events(rule_id, timeframe) that directly
\* follows the same call, no insert between, leaves every rule's retained
\* entries as the first call left them.
C9_SecondCleanupChangesNothing ==
    [][(last'.op = "cleanup" /\ last'.repeatOf >= 0)
         => \A r \in RuleIds :
               /\ Lookup(events', r) = History(r)
               /\ Lookup(timestamps', r) = Stamps(r)]_vars

\* C9 amended: the second call changes nothing when it reads the same clock
\* value as the first; at a later clock value it removes entries only, and
\* keeps the order of those it retains.
C9_SecondCleanupAtSameClock ==
    [][(last'.op = "cleanup" /\ last'.repeatOf >= 0)
         => \A r \in RuleIds :
               /\ last'.repeatOf = last'.clock
                     => /\ Lookup(events', r) = History(r)
                        /\ Lookup(timestamps', r) = Stamps(r)
               /\ SerialSet(Lookup(events', r)) \subseteq SerialSet(History(r))
               /\ Serials(Lookup(events', r)) = Serials(Lookup(timestamps', r))]_vars

\* a second cleanup with a parseable timeframe, at the clock value of the
\* first, on a rule that retains entries after the first removed some
C9_Witness ==
    /\ last.op = "cleanup"
    /\ last.repeatOf = last.clock
    /\ last.tf = Sec(1)
    /\ last.clock >= 2
    /\ History(last.rid) # <<>>
    /\ \E i \in 1..Len(History(last.rid)) : History(last.rid)[i].sn > 1

(***************************************************************************)
(* Scenarios for the numeric aggregates and for the shapes of conditions.  *)
(***************************************************************************)
Filter == SearchId("filter")

\* `selection | F(bytes) OP N` for sum, min, max, and `selection | avg(bytes) > N`
NumScenarios ==
    {Scenario(OneRule(NoTimeframe, Pipe(Selection, Agg(f, "bytes", "", op, n))),
              {Event(IntVal(1), TimeStr(0), None, IntVal(v)) : v \in {1, 3, 5}}) :
        f \in {"sum", "min", "max"}, op \in Ops, n \in 0..MaxThreshold}
    \cup
    {Scenario(OneRule(NoTimeframe, Pipe(Selection, Agg("avg", "bytes", "", ">", n))),
              {Event(IntVal(1), TimeStr(0), None, IntVal(v)) : v \in {1, 3, 5}}) :
        n \in 0..MaxThreshold}

InitNum == InitWith(NumScenarios)

SpecNum == InitNum /\ [][NextEval]_vars

\* events that match selection only (1), filter only (2), both (3), neither (0)
ShapeFeed == {Event(IntVal(id), TimeStr(0), IntVal(1), IntVal(1)) : id \in 0..3}

\* events that match selection, stamped by the clock or with an old UtcTime
WindowFeed ==
    {Event(IntVal(1), utc, IntVal(1), IntVal(1)) : utc \in {None, TimeStr(0)}}

\* and one that does not match
NoMatch == Event(IntVal(0), None, IntVal(1), IntVal(1))

CountAbove1 == Agg("count", "", "", ">", 1)

\* conditions with no aggregation clause
PlainConditions ==
    { Pipe(Selection, NoClause),
      Pipe(Not(Filter), NoClause),
      Pipe(And(<<Selection, Not(Filter)>>), NoClause),
      Pipe(Or(<<Selection, Filter>>), NoClause),
      Pipe(XOf(Number(1), "them"), NoClause),
      Pipe(XOf(All, "them"), NoClause),
      Pipe(And(<<Pipe(Or(<<Selection, Filter>>), NoClause), Not(Filter)>>), NoClause) }

\* conditions with an aggregation clause
PipedConditions ==
    { Pipe(And(<<Selection, Not(Filter)>>), CountAbove1),
      Pipe(And(<<Pipe(Selection, NoClause), Filter>>), CountAbove1),
      Pipe(Pipe(Selection, CountAbove1), CountAbove1),
      Pipe(Selection, Near(Filter)),
      Pipe(Or(<<Selection, Filter>>), Agg("count", "", "src_ip", "<", 2)) }

ShapeScenarios ==
    {Scenario(OneRule(NoTimeframe, c), ShapeFeed) : c \in PlainConditions \cup PipedConditions}
    \cup
    {Scenario([r \in {"r1", "r2"} |->
                  Signature(r, NoTimeframe,
                            IF r = "r1" THEN Pipe(And(<<Selection, Filter>>), CountAbove1)
                            ELSE Pipe(Selection, CountAbove1))],
              ShapeFeed)}
    \cup
    {Scenario(OneRule(Sec(1), c), WindowFeed \cup {NoMatch}) :
        c \in {Pipe(Selection, CountAbove1), Pipe(Selection, Agg("count", "", "", "<", 2))}}

InitEval == InitWith(ShapeScenarios)

SpecEval == InitEval /\ [][NextEval]_vars

\* `selection | F(bytes) OP N` and `selection | count() by src_ip OP N` under
\* a timeframe of one second
WindowScenarios ==
    {Scenario(OneRule(Sec(1), Pipe(Selection, Agg(f, "bytes", "", op, n))), WindowFeed) :
        f \in {"count", "sum", "min", "max", "avg"}, op \in Ops, n \in 0..MaxThreshold}
    \cup
    {Scenario(OneRule(Sec(1), Pipe(Selection, Agg("count", "", "src_ip", op, n))), WindowFeed) :
        op \in Ops, n \in 0..MaxThreshold}

InitWindow == InitWith(WindowScenarios)

SpecWindow == InitWindow /\ [][NextEval]_vars

(***************************************************************************)
(* The claims about compiled predicates.                                   *)
(***************************************************************************)
\* compare(k, OP, N) on integers
CompareInt(k, op, n) ==
    CASE op = ">" -> k > n
      [] op = "<" -> k < n
      [] op = "=" -> k = n

\* the last operation was an invocation of a predicate `selection | clause`
\* of a rule with no timeframe, on an event that matches selection
MatchedPlainPipe ==
    /\ last.op = "predicate"
    /\ rules[last.rid].timeframe = NoTimeframe
    /\ BaseOf(rules[last.rid].cond) = Selection
    /\ rules[last.rid].cond.clause.t = "agg"
    /\ match_search_id(rules[last.rid], last.event, "selection")

LastClause == rules[last.rid].cond.clause

\* the bytes values of the events recorded for the rule of the last operation
RecordedValues ==
    [i \in 1..Len(History(last.rid)) |-> Get(History(last.rid)[i].ev, "bytes").v]

RECURSIVE SumTo(_, _)
SumTo(f, n) == IF n = 0 THEN 0 ELSE f[n] + SumTo(f, n - 1)

Range(f) == {f[i] : i \in DOMAIN f}

Least(S) == CHOOSE m \in S : \A x \in S : m <= x
Greatest(S) == CHOOSE m \in S : \A x \in S : m >= x

\* C1: for `selection | count() OP N`, no grouping, no timeframe, the
\* decision for the k-th matching event since the reset is compare(k, OP, N).
C1_CountDecision ==
    (MatchedPlainPipe /\ LastClause.func = "count" /\ LastClause.group = "")
        => last.res = CompareInt(matches[last.rid], LastClause.op, LastClause.value)

\* the same for the thresholds N >= 1
C1_CountDecisionPositive ==
    (MatchedPlainPipe /\ LastClause.func = "count" /\ LastClause.group = ""
        /\ LastClause.value >= 1)
        => last.res = CompareInt(matches[last.rid], LastClause.op, LastClause.value)

\* the number of retained events of the rule whose src_ip is the event's
SameGroupCount ==
    Cardinality({i \in 1..Len(History(last.rid)) :
        Get(History(last.rid)[i].ev, "src_ip") = Get(last.event, "src_ip")})

\* C2: for `count() by src_ip OP N` the decision is compare(n, OP, N) with n
\* the number of retained events, the current one included, whose src_ip is
\* that of the triggering event.
C2_GroupDecision ==
    (MatchedPlainPipe /\ LastClause.func = "count" /\ LastClause.group = "src_ip")
        => last.res = CompareInt(SameGroupCount, LastClause.op, LastClause.value)

C2_GroupDecisionPositive ==
    (MatchedPlainPipe /\ LastClause.func = "count" /\ LastClause.group = "src_ip"
        /\ LastClause.value >= 1)
        => last.res = CompareInt(SameGroupCount, LastClause.op, LastClause.value)

\* sum, max or min of the recorded values
Folded(func) ==
    CASE func = "sum" -> SumTo(RecordedValues, Len(RecordedValues))
      [] func = "min" -> Least(Range(RecordedValues))
      [] func = "max" -> Greatest(Range(RecordedValues))

\* C3: for `selection | F(bytes) OP N`, F one of sum, min, max, the decision
\* for the k-th matching event is compare(F of the values of the k events
\* recorded so far, OP, N).
C3_FoldDecision ==
    (MatchedPlainPipe /\ LastClause.func \in {"sum", "min", "max"})
        => /\ Len(History(last.rid)) = matches[last.rid]
           /\ last.res = CompareInt(Folded(LastClause.func), LastClause.op, LastClause.value)

C3_FoldDecisionPositive ==
    (MatchedPlainPipe /\ LastClause.func \in {"sum", "min", "max"}
        /\ LastClause.value >= 1)
        => /\ Len(History(last.rid)) = matches[last.rid]
           /\ last.res = CompareInt(Folded(LastClause.func), LastClause.op, LastClause.value)

\* C4: for `selection | avg(bytes) > N` the decision is true iff the mean of
\* the values of the k events recorded so far is strictly greater than N
\* (sum > N * k); a mean equal to N does not trigger.
C4_AvgDecision ==
    (MatchedPlainPipe /\ LastClause.func = "avg" /\ LastClause.op = ">")
        => /\ Len(History(last.rid)) = matches[last.rid]
           /\ last.res = (SumTo(RecordedValues, Len(RecordedValues))
                            > LastClause.value * Len(RecordedValues))

C4_AvgDecisionPositive ==
    (MatchedPlainPipe /\ LastClause.func = "avg" /\ LastClause.op = ">"
        /\ LastClause.value >= 1)
        => /\ Len(History(last.rid)) = matches[last.rid]
           /\ last.res = (SumTo(RecordedValues, Len(RecordedValues))
                            > LastClause.value * Len(RecordedValues))

\* the step is an invocation of a compiled predicate (the clock stands still
\* during the call, and last describes the call)
PredicateStep ==
    /\ last'.op = "predicate"
    /\ now' = now

\* whether a condition contains a pipe_rule, and whether it contains an
\* aggregation clause
RECURSIVE HasPipe(_)
HasPipe(c) ==
    CASE c.t = "pipe" -> TRUE
      [] c.t = "not" -> HasPipe(c.arg)
      [] c.t \in {"and", "or"} -> \E i \in 1..Len(c.args) : HasPipe(c.args[i])
      [] OTHER -> FALSE

RECURSIVE HasClause(_)
HasClause(c) ==
    CASE c.t = "pipe" -> c.clause.t # "none" \/ HasClause(c.base)
      [] c.t = "not" -> HasClause(c.arg)
      [] c.t \in {"and", "or"} -> \E i \in 1..Len(c.args) : HasClause(c.args[i])
      [] OTHER -> FALSE

\* stores with other contents: empty, and one or two entries for rule r1
AltEntry(sn) == [sn |-> sn, ev |-> Event(IntVal(3), None, IntVal(2), IntVal(5))]
AltStamp(sn) == [sn |-> sn, k |-> "datetime", t |-> 0]
AltStores ==
    { Store(EmptyDict, EmptyDict, 1),
      Store([r \in {"r1"} |-> <<AltEntry(1)>>], [r \in {"r1"} |-> <<AltStamp(1)>>], 2),
      Store([r \in {"r1"} |-> <<AltEntry(1), AltEntry(2)>>],
            [r \in {"r1"} |-> <<AltStamp(1), AltStamp(2)>>], 3) }

\* C5: the predicate of a condition with no aggregation clause returns the
\* same value against any other store, and leaves the store unchanged.
C5_PlainConditionIgnoresStore ==
    [][(PredicateStep /\ ~HasClause(rules[last'.rid].cond))
         => /\ events' = events
            /\ timestamps' = timestamps
            /\ \A alt \in AltStores :
                  Eval(rules[last'.rid].cond, rules[last'.rid], last'.event, alt, now).res
                     = last'.res]_vars

\* the first half of C5 alone: the value returned does not depend on the store
C5_ResultIgnoresStore ==
    [][(PredicateStep /\ ~HasClause(rules[last'.rid].cond))
         => \A alt \in AltStores :
               Eval(rules[last'.rid].cond, rules[last'.rid], last'.event, alt, now).res
                  = last'.res]_vars

\* the step is an invocation of a predicate whose top-level pipe has a clause
PipedStep ==
    /\ PredicateStep
    /\ rules[last'.rid].cond.clause.t # "none"

\* C6 as stated: when the base condition of a pipe with a clause is false,
\* the predicate returns false and the store is unchanged for every rule.
C6_FalseBaseLeavesStore ==
    [][(PipedStep /\ ~BaseResult(last'.rid, last'.event))
         => /\ last'.res = FALSE
            /\ events' = events
            /\ timestamps' = timestamps]_vars

\* C6 amended: the predicate returns false and the pipe itself appends and
\* expires nothing: the store is as the evaluation of the base condition
\* left it, which is unchanged, with no store operation made, when the base
\* condition contains no parenthesised sub-condition.
C6_FalseBaseAddsNothing ==
    [][(PipedStep /\ ~BaseResult(last'.rid, last'.event))
         => LET sig == rules[last'.rid]
                base == Eval(BaseOf(sig.cond), sig, last'.event, Current, now)
            IN /\ last'.res = FALSE
               /\ events' = base.st.events
               /\ timestamps' = base.st.timestamps
               /\ ~HasPipe(BaseOf(sig.cond))
                     => /\ events' = events
                        /\ timestamps' = timestamps
                        /\ last'.log = <<>>]_vars

\* a rule with a timeframe of one second holds an entry older than that, and
\* its predicate has just been invoked on an event its base rejects
C6_Witness ==
    /\ last.op = "predicate"
    /\ rules[last.rid].cond.clause.t = "agg"
    /\ rules[last.rid].timeframe = Sec(1)
    /\ ~HasPipe(BaseOf(rules[last.rid].cond))
    /\ ~BaseResult(last.rid, last.event)
    /\ ~last.res
    /\ \E i \in 1..Len(Stamps(last.rid)) : Stamps(last.rid)[i].t < now - 1

\* C7: when the base condition of a pipe with a clause is true, the event is
\* appended to the rule's history before the aggregation is evaluated,
\* whatever the aggregation then returns, and the predicate returns what the
\* aggregation returns: the comparison of the aggregate over the history
\* retained with the event appended.
C7_AppendThenAggregate ==
    [][(PipedStep /\ BaseResult(last'.rid, last'.event) /\ ~last'.exc)
         => LET sig == rules[last'.rid]
                rid == last'.rid
                cl == sig.cond.clause
                base == Eval(BaseOf(sig.cond), sig, last'.event, Current, now)
                entry == [sn |-> base.st.serial, ev |-> last'.event]
                appended == Append(Lookup(base.st.events, rid), entry)
                log == last'.log
                n == Len(log)
            IN /\ \E i \in 1..n :
                     /\ log[i] = LogEntry("add_event", rid, base.st.serial, 0, FALSE)
                     /\ cl.t = "agg"
                           => /\ i < n
                              /\ log[n].op = "evaluate"
                              /\ log[n].res = last'.res
               /\ (cl.t = "agg" /\ sig.timeframe = NoTimeframe)
                     => /\ Lookup(events', rid) = appended
                        /\ last'.res = EvaluateResult(appended, cl.func, cl.field,
                              cl.group, cl.op, IF cl.value = 0 THEN 1 ELSE cl.value,
                              last'.event)
               /\ (cl.t = "agg" /\ sig.timeframe # NoTimeframe)
                     => /\ SerialSet(Lookup(events', rid)) \subseteq SerialSet(appended)
                        /\ last'.res = EvaluateResult(Lookup(events', rid), cl.func,
                              cl.field, cl.group, cl.op,
                              IF cl.value = 0 THEN 1 ELSE cl.value, last'.event)
               /\ cl.t = "near"
                     => /\ SerialSet(appended) \subseteq SerialSet(Lookup(events', rid))
                        /\ last'.res = Eval(cl.cond, sig, last'.event,
                              [base.st EXCEPT !.events = Put(@, rid, appended)], now).res]_vars

\* the base matched, the event was appended and the aggregation was false
C7_Witness ==
    /\ last.op = "predicate"
    /\ rules[last.rid].cond.clause.t = "agg"
    /\ ~HasPipe(BaseOf(rules[last.rid].cond))
    /\ BaseResult(last.rid, last.event)
    /\ ~last.res
    /\ Len(last.log) = 2
    /\ last.log[1].op = "add_event"
    /\ last.log[2].op = "evaluate"
    /\ History(last.rid) # <<>>
    /\ History(last.rid)[Len(History(last.rid))] = [sn |-> last.log[1].sn, ev |-> last.event]

\* the base matched, the event was appended and the aggregation was true
C7_WitnessTrue ==
    /\ last.op = "predicate"
    /\ rules[last.rid].cond.clause.t = "agg"
    /\ BaseResult(last.rid, last.event)
    /\ last.res
    /\ History(last.rid)[Len(History(last.rid))] = [sn |-> last.log[1].sn, ev |-> last.event]

\* C10: when the history retained after expiry is empty, evaluate returns
\* false, whatever the function, the operator and the threshold.
C10_EmptyHistoryIsFalse ==
    (/\ last.op \in {"evaluate", "evaluate_no_event", "predicate"}
     /\ ~last.exc
     /\ History(last.rid) = <<>>)
        => last.res = FALSE

\* evaluate was called with a comparison that the value zero satisfies, and
\* expiry has just removed every entry of the rule
C10_Witness ==
    /\ last.op = "evaluate"
    /\ History(last.rid) = <<>>
    /\ last.log # <<>>
    /\ last.log[1].op = "cleanup"
    /\ last.log[1].n >= 1
    /\ _compare(Rat(0, 1), LastClause.op, LastClause.value)

(***************************************************************************)
(* Further claims about the store (specification Spec).                    *)
(***************************************************************************)
\* the step is a call of the store operation op (the clock stands still
\* during a call)
StoreStep(op) ==
    /\ last'.op = op
    /\ now' = now

\* C11: clear_rule(r) leaves r with an empty history and the history of
\* every other rule as it was; reset leaves every rule with an empty
\* history, and a get_events that follows a reset raises nothing and
\* returns the empty sequence, as it does for a rule that never recorded.
C11_ClearOneResetAll ==
    [][/\ StoreStep("clear_rule")
          => /\ Lookup(events', last'.rid) = <<>>
             /\ Lookup(timestamps', last'.rid) = <<>>
             /\ \A r \in RuleIds \ {last'.rid} :
                   /\ Lookup(events', r) = History(r)
                   /\ Lookup(timestamps', r) = Stamps(r)
       /\ StoreStep("reset")
          => \A r \in RuleIds :
                /\ Lookup(events', r) = <<>>
                /\ Lookup(timestamps', r) = <<>>
                /\ ~get_events(Store(events', timestamps', serial'), r).exc
                /\ get_events(Store(events', timestamps', serial'), r).events[r] = <<>>
       /\ (StoreStep("get_events") /\ (last.op = "reset" \/ History(last'.rid) = <<>>))
          => /\ ~last'.exc
             /\ Lookup(events', last'.rid) = <<>>]_vars

\* clear_rule has discarded the events of one rule while another rule
\* retains some
C11_Witness ==
    /\ last.op = "clear_rule"
    /\ last.log[1].n >= 1
    /\ \E r \in RuleIds \ {last.rid} : History(r) # <<>>

\* a timeframe made of a number and one of the suffixes M, d, h, m, s
Parseable(tf) ==
    LET s == Strip(tf)
    IN /\ s # <<>>
       /\ s[Len(s)] \in {"M", "d", "h", "m", "s"}
       /\ IntOf(SubSeq(s, 1, Len(s) - 1)).k = "ok"

StoreUnchanged ==
    \A r \in RuleIds :
        /\ Lookup(events', r) = History(r)
        /\ Lookup(timestamps', r) = Stamps(r)

\* C14: cleanup_old_events raises nothing and leaves every history as it
\* was whenever the timeframe is empty, is not parseable (an unknown suffix,
\* or a known suffix after a prefix that is no number), or the rule has no
\* recorded history.
C14_BadTimeframeIsNoOp ==
    [][(/\ StoreStep("cleanup")
        /\ \/ last'.tf = NoTimeframe
           \/ ~Parseable(last'.tf)
           \/ Stamps(last'.rid) = <<>>)
         => /\ ~last'.exc
            /\ StoreUnchanged]_vars

\* the part of C14 that holds: an empty timeframe, an unknown suffix, or a
\* rule id that has no timestamp list
C14_UnknownSuffixIsNoOp ==
    [][(/\ StoreStep("cleanup")
        /\ \/ last'.tf = NoTimeframe
           \/ Strip(last'.tf)[Len(Strip(last'.tf))] \notin {"M", "d", "h", "m", "s"}
           \/ last'.rid \notin DOMAIN timestamps)
         => /\ ~last'.exc
            /\ StoreUnchanged]_vars

\* and a malformed prefix never changes the history, though it raises
C14_MalformedPrefixKeepsHistory ==
    [][(StoreStep("cleanup") /\ ~Parseable(last'.tf)) => StoreUnchanged]_vars

\* the seconds a parseable timeframe spells
DurationSeconds(tf) ==
    LET s == Strip(tf)
        n == IntOf(SubSeq(s, 1, Len(s) - 1)).v
        u == s[Len(s)]
    IN CASE u = "s" -> n
         [] u = "m" -> n * SecondsPerMinute
         [] u = "h" -> n * SecondsPerHour
         [] u = "d" -> n * SecondsPerDay
         [] u = "M" -> n * DaysPerMonth * SecondsPerDay

\* the serials of the entries of rule r stamped at or after the cutoff
AtOrAfter(r, cutoff) ==
    {Stamps(r)[i].sn : i \in {j \in 1..Len(Stamps(r)) : Stamps(r)[j].t >= cutoff}}

StampKinds ==
    {None, EmptyStr, BadStr, TimeStr(0), NumStr(2), IntVal(0), IntVal(2), DateTime(0)}

StampScenarios ==
    {Scenario([r \in {"r1", "r2"} |-> Signature(r, NoTimeframe, Pipe(Selection, NoClause))],
              {Event(IntVal(1), utc, None, None) : utc \in StampKinds})}

InitStamp == InitWith(StampScenarios)

NextStamp ==
    \/ \E r \in RuleIds, e \in feed : AddEvent(r, e)
    \/ \E r \in RuleIds : GetEvents(r)
    \/ \E r \in RuleIds : ClearRule(r)
    \/ Tick

SpecStamp == InitStamp /\ [][NextStamp]_vars

\* C15: add_event raises nothing, whatever the timestamp field holds; it
\* appends exactly one event and exactly one timestamp to the rule, in the
\* last place, and touches no other rule; when the field is missing, empty
\* or a str that does not parse, the timestamp is the wall clock of the call,
\* and when it parses, the instant it spells.
C15_AddEventNeverFails ==
    [][StoreStep("add_event")
         => LET r == last'.rid
                utc == Get(last'.event, "UtcTime")
                n == Len(Stamps(r))
                stamp == Lookup(timestamps', r)[n + 1]
            IN /\ ~last'.exc
               /\ Lookup(events', r) = Append(History(r), [sn |-> serial, ev |-> last'.event])
               /\ Len(Lookup(timestamps', r)) = n + 1
               /\ SubSeq(Lookup(timestamps', r), 1, n) = Stamps(r)
               /\ stamp.sn = serial
               /\ utc.k \in {"none", "emptystr", "badstr", "numstr"}
                     => (stamp.k = "datetime" /\ stamp.t = now)
               /\ utc.k = "timestr" => (stamp.k = "datetime" /\ stamp.t = utc.v)
               /\ \A other \in RuleIds \ {r} :
                     /\ Lookup(events', other) = History(other)
                     /\ Lookup(timestamps', other) = Stamps(other)]_vars

\* an event whose UtcTime does not parse was added after the clock had
\* advanced, to a rule that held an event already
C15_Witness ==
    /\ last.op = "add_event"
    /\ Get(last.event, "UtcTime") = BadStr
    /\ Len(History(last.rid)) >= 2
    /\ Stamps(last.rid)[Len(Stamps(last.rid))].t >= 1

(***************************************************************************)
(* The compiled threshold (specification SpecCount).                       *)
(***************************************************************************)
\* C18: the clause compiled from `F(...) OP N` compares against the N
\* written and with the OP written, for every N >= 0: the decision for a
\* matching event is the comparison of the aggregate of the retained history
\* with N.
C18_WrittenThreshold ==
    MatchedPlainPipe
        => /\ aggregation_expression(LastClause).op = LastClause.op
           /\ aggregation_expression(LastClause).threshold = LastClause.value
           /\ last.res = EvaluateResult(History(last.rid), LastClause.func,
                             LastClause.field, LastClause.group, LastClause.op,
                             LastClause.value, last.event)

\* the part of C18 that holds: the operator is the one written, and so is
\* every threshold N >= 1
C18_WrittenOperator ==
    MatchedPlainPipe
        => /\ aggregation_expression(LastClause).op = LastClause.op
           /\ LastClause.value >= 1
                 => /\ aggregation_expression(LastClause).threshold = LastClause.value
                    /\ last.res = EvaluateResult(History(last.rid), LastClause.func,
                                      LastClause.field, LastClause.group, LastClause.op,
                                      LastClause.value, last.event)

(***************************************************************************)
(* Grouped aggregation (specification SpecGroup): evaluate called with an  *)
(* event, with no event and with the empty dict, on histories whose events *)
(* carry the group field or lack it.                                       *)
(***************************************************************************)
\* evaluate(..., current_event={})
EvaluateEmptyEvent(r) ==
    /\ rules[r].cond.clause.t = "agg"
    /\ \E out \in {evaluate(Current, r, Written(rules[r].cond.clause),
                              rules[r].timeframe, EmptyDict, now)} :
          /\ events' = out.st.events
          /\ timestamps' = out.st.timestamps
          /\ last' = Obs("evaluate_empty_event", r, EmptyDict, rules[r].timeframe,
                         out.res, out.st, -1)
    /\ UNCHANGED <<rules, feed, serial, now, matches, threads>>

NextGroup ==
    \/ NextEval
    \/ \E r \in RuleIds : EvaluateEmptyEvent(r)

\* `selection | count() by src_ip OP N` and `selection | sum(bytes) by src_ip > N`
\* on events whose src_ip is 1, 2 or missing
GroupScenarios ==
    {Scenario(OneRule(NoTimeframe, Pipe(Selection, Agg("count", "", "src_ip", op, n))),
              {Event(IntVal(1), TimeStr(0), ip, IntVal(1)) : ip \in {None, IntVal(1), IntVal(2)}}) :
        op \in Ops, n \in 1..MaxThreshold}
    \cup
    {Scenario(OneRule(NoTimeframe, Pipe(Selection, Agg("sum", "bytes", "src_ip", ">", n))),
              {Event(IntVal(1), TimeStr(0), ip, IntVal(v)) :
                  ip \in {None, IntVal(1)}, v \in {1, 3}}) :
        n \in 1..MaxThreshold}

InitGroup == InitWith(GroupScenarios)

SpecGroup == InitGroup /\ [][NextGroup]_vars

\* the last operation was a direct call of evaluate with a group field
GroupedEvaluate ==
    /\ last.op \in {"evaluate", "evaluate_no_event", "evaluate_empty_event"}
    /\ ~last.exc
    /\ LastClause.group # NoField

\* the positions of the retained events whose group field has the value key
Members(key) ==
    {i \in 1..Len(History(last.rid)) :
        Get(History(last.rid)[i].ev, LastClause.group) = key}

\* whether the partition of key satisfies the comparison as written
PartitionSatisfies(key) ==
    LET vals == [i \in Members(key) |-> Get(History(last.rid)[i].ev, "bytes").v]
        total == IF LastClause.func = "count" THEN Cardinality(Members(key))
                 ELSE SumTo([j \in 1..Cardinality(Members(key)) |->
                               vals[CHOOSE i \in Members(key) :
                                      Cardinality({m \in Members(key) : m <= i}) = j]],
                            Cardinality(Members(key)))
    IN CompareInt(total, LastClause.op, LastClause.value)

GroupKeysRetained ==
    {Get(History(last.rid)[i].ev, LastClause.group) : i \in 1..Len(History(last.rid))}

\* C19: with a group field and no triggering event, evaluate is true iff
\* some partition of the retained events satisfies the comparison; whenever
\* a triggering event is supplied, the empty dict included, evaluate is true
\* iff the partition of the triggering event's key exists and satisfies it.
C19_TwoModes ==
    GroupedEvaluate
        => IF last.op = "evaluate_no_event"
           THEN last.res = (\E key \in GroupKeysRetained : PartitionSatisfies(key))
           ELSE last.res = (/\ Get(last.event, LastClause.group) \in GroupKeysRetained
                            /\ PartitionSatisfies(Get(last.event, LastClause.group)))

\* the part of C19 that holds: the two modes, for no event and for an event
\* that is not the empty dict
C19_TwoModesNonEmptyEvent ==
    (GroupedEvaluate /\ last.op # "evaluate_empty_event")
        => IF last.op = "evaluate_no_event"
           THEN last.res = (\E key \in GroupKeysRetained : PartitionSatisfies(key))
           ELSE last.res = (/\ Get(last.event, LastClause.group) \in GroupKeysRetained
                            /\ PartitionSatisfies(Get(last.event, LastClause.group)))

\* C20: an event that lacks the group field raises nothing; when the
\* triggering event lacks the field (the empty dict lacks every field), the
\* decision is the comparison over the retained events that lack it, false
\* when there is none, whatever the events that carry a value would give.
C20_NullKeyGroup ==
    (/\ GroupedEvaluate
     /\ last.op # "evaluate_no_event"
     /\ Get(last.event, LastClause.group) = None)
        => last.res = (Members(None) # {} /\ PartitionSatisfies(None))

\* the part of C20 that holds: a triggering event that has other fields and
\* lacks the group field
C20_NullKeyGroupNonEmptyEvent ==
    (/\ GroupedEvaluate
     /\ last.op = "evaluate"
     /\ Get(last.event, LastClause.group) = None)
        => last.res = (Members(None) # {} /\ PartitionSatisfies(None))

\* in every state, no predicate and no evaluate has raised
C20_NothingRaised == ~last.exc

(***************************************************************************)
(* Threads (specification SpecThreads).  Two threads call predicates of    *)
(* the form `base | F(...) OP N` and clear_rule on the one process-wide    *)
(* store, which takes no lock; a thread switch may fall between any two    *)
(* statements of _pipe_with_aggregation, add_event, cleanup_old_events,    *)
(* evaluate and clear_rule.  One action is one statement.                  *)
(***************************************************************************)
MaxThreadEvents == 2
MaxThreadTime == 1

Thread(t) == threads[t]

\* the other variables of the store stay as they are
ThreadFrame == UNCHANGED <<rules, feed, now, last, matches>>

\* _pipe_with_aggregation: the base condition is evaluated
Begin(t, r, e) ==
    /\ Thread(t).pc = "idle"
    /\ serial <= MaxThreadEvents
    /\ rules[r].cond.clause.t = "agg"
    /\ threads' = [threads EXCEPT ![t] =
          IF BaseResult(r, e)
          THEN [IdleThread EXCEPT !.pc = "append_event", !.rid = r, !.event = e]
          ELSE IdleThread]
    /\ UNCHANGED <<events, timestamps, serial>>
    /\ ThreadFrame

\* add_event: self.events[rule_id].append(event)
AppendEvent(t) ==
    /\ Thread(t).pc = "append_event"
    /\ LET r == Thread(t).rid
           appended == Append(Lookup(events, r), [sn |-> serial, ev |-> Thread(t).event])
       IN /\ events' = Put(events, r, appended)
          /\ threads' = [threads EXCEPT ![t].pc = "append_stamp", ![t].sn = serial,
                                        ![t].mine = appended]
    /\ serial' = serial + 1
    /\ UNCHANGED timestamps
    /\ ThreadFrame

\* add_event: self.timestamps[rule_id].append(...)
AppendStamp(t) ==
    /\ Thread(t).pc = "append_stamp"
    /\ LET r == Thread(t).rid
           stamp == TimestampOf(Get(Thread(t).event, "UtcTime"), now)
       IN /\ timestamps' = Put(timestamps, r, Append(Lookup(timestamps, r),
                [sn |-> Thread(t).sn, k |-> stamp.k, t |-> stamp.t]))
          /\ threads' = [threads EXCEPT ![t].pc =
                IF rules[r].timeframe # NoTimeframe THEN "cleanup" ELSE "compare"]
    /\ UNCHANGED <<events, serial>>
    /\ ThreadFrame

\* cleanup_old_events up to the end of its loop: the two lists are read and
\* the filtered lists are built in locals
CleanupRead(t) ==
    /\ Thread(t).pc = "cleanup"
    /\ LET r == Thread(t).rid
           time_limit == _parse_timeframe(rules[r].timeframe)
           evs == Lookup(events, r)
           tss == Lookup(timestamps, r)
           n == Min2(Len(evs), Len(tss))
           cutoff_time == now - time_limit.v
           keep == {i \in 1..n : tss[i].t >= cutoff_time}
       IN IF r \notin DOMAIN timestamps \/ time_limit.k # "ok"
          THEN /\ threads' = [threads EXCEPT ![t].pc = "compare"]
               /\ UNCHANGED events
          ELSE /\ threads' = [threads EXCEPT ![t].pc = "write_events",
                                 ![t].new_events = Pick(evs, n, keep),
                                 ![t].new_timestamps = Pick(tss, n, keep),
                                 ![t].cutoff = cutoff_time,
                                 ![t].mark = serial]
               /\ events' = Put(events, r, evs)
    /\ UNCHANGED <<timestamps, serial>>
    /\ ThreadFrame

\* cleanup_old_events: self.events[rule_id] = new_events
WriteEvents(t) ==
    /\ Thread(t).pc = "write_events"
    /\ events' = Put(events, Thread(t).rid, Thread(t).new_events)
    /\ threads' = [threads EXCEPT ![t].pc = "write_stamps",
                                  ![t].mine = Thread(t).new_events]
    /\ UNCHANGED <<timestamps, serial>>
    /\ ThreadFrame

\* cleanup_old_events: self.timestamps[rule_id] = new_timestamps
WriteStamps(t) ==
    /\ Thread(t).pc = "write_stamps"
    /\ timestamps' = Put(timestamps, Thread(t).rid, Thread(t).new_timestamps)
    /\ threads' = [threads EXCEPT ![t].pc = "compare",
                                  ![t].new_events = <<>>, ![t].new_timestamps = <<>>,
                                  ![t].cutoff = 0, ![t].mark = 0]
    /\ UNCHANGED <<events, serial>>
    /\ ThreadFrame

\* evaluate from get_events on: the aggregate is derived and compared, and the
\* predicate returns
Compare(t) ==
    /\ Thread(t).pc = "compare"
    /\ LET r == Thread(t).rid
           p == aggregation_expression(rules[r].cond.clause)
           entries == Lookup(events, r)
       IN /\ events' = Put(events, r, entries)
          /\ threads' = [threads EXCEPT ![t] =
                [IdleThread EXCEPT
                    !.res = EvaluateResult(entries, p.func, p.field, p.group_by,
                                           p.op, p.threshold, Thread(t).event)]]
    /\ UNCHANGED <<timestamps, serial>>
    /\ ThreadFrame

\* clear_rule: del self.events[rule_id]
ClearEvents(t, r) ==
    /\ Thread(t).pc = "idle"
    /\ events' = Del(events, r)
    /\ threads' = [threads EXCEPT ![t] = [IdleThread EXCEPT !.pc = "clear_stamps", !.rid = r]]
    /\ UNCHANGED <<timestamps, serial>>
    /\ ThreadFrame

\* clear_rule: del self.timestamps[rule_id]
ClearStamps(t) ==
    /\ Thread(t).pc = "clear_stamps"
    /\ timestamps' = Del(timestamps, Thread(t).rid)
    /\ threads' = [threads EXCEPT ![t] = IdleThread]
    /\ UNCHANGED <<events, serial>>
    /\ ThreadFrame

\* the wall clock advances while the threads run
TickThreads ==
    /\ now < MaxThreadTime
    /\ now' = now + 1
    /\ UNCHANGED <<rules, feed, events, timestamps, serial, last, matches, threads>>

NextThreads ==
    \/ \E t \in ThreadIds, r \in RuleIds, e \in feed : Begin(t, r, e)
    \/ \E t \in ThreadIds : AppendEvent(t)
    \/ \E t \in ThreadIds : AppendStamp(t)
    \/ \E t \in ThreadIds : CleanupRead(t)
    \/ \E t \in ThreadIds : WriteEvents(t)
    \/ \E t \in ThreadIds : WriteStamps(t)
    \/ \E t \in ThreadIds : Compare(t)
    \/ \E t \in ThreadIds, r \in RuleIds : ClearEvents(t, r)
    \/ \E t \in ThreadIds : ClearStamps(t)
    \/ TickThreads

\* two rules `selection | count() > 1` with the timeframe 0s (an entry
\* expires once the clock has advanced past its stamp), an event that matches
\* and is stamped by the clock, and one that does not match
ThreadScenarios ==
    {Scenario([r \in {"r1", "r2"} |-> Signature(r, Sec(0), Pipe(Selection, CountAbove1))],
              {Event(IntVal(1), None, IntVal(1), IntVal(1)), NoMatch})}

InitThreads == InitWith(ThreadScenarios)

SpecThreads == InitThreads /\ [][NextThreads]_vars

\* thread t has taken the step
Stepped(t) == threads'[t] # threads[t]

\* the rule id of the call in which thread t has taken the step
SteppedRule(t) == IF threads'[t].rid # "" THEN threads'[t].rid ELSE Thread(t).rid

\* a thread that has appended its event and has not yet compared
InSection(th) ==
    th.pc \in {"append_stamp", "cleanup", "write_events", "write_stamps", "compare"}

\* C12: for one rule id, append, expire, derive and compare are atomic with
\* respect to another evaluation of the same rule id: two evaluations of one
\* rule are never both between their append and their comparison, and the
\* history a thread compares is the history as its own append and its own
\* expiry left it.
C12_AppendCompareAtomic ==
    [][/\ \A t, u \in ThreadIds :
             (t # u /\ InSection(threads'[t]) /\ InSection(threads'[u]))
                => threads'[t].rid # threads'[u].rid
       /\ \A t \in ThreadIds :
             (Thread(t).pc = "compare" /\ Stepped(t))
                => History(Thread(t).rid) = Thread(t).mine]_vars

\* the events of a list of entries
Evs(s) == [i \in 1..Len(s) |-> s[i].ev]

\* C13: a step of an evaluation or of a clear_rule for rule A, in any
\* interleaving, leaves the history of every other rule B as it was, and
\* the decision for B on any event, and the history B then has, are what
\* they would have been before the step.
C13_OtherRulesUntouched ==
    [][\A t \in ThreadIds :
          Stepped(t)
             => \A b \in RuleIds \ {SteppedRule(t)} :
                   /\ Lookup(events', b) = History(b)
                   /\ Lookup(timestamps', b) = Stamps(b)
                   /\ \A e \in feed :
                         LET before == Eval(rules[b].cond, rules[b], e, Current, now)
                             after == Eval(rules[b].cond, rules[b], e,
                                           Store(events', timestamps', serial'), now)
                         IN /\ after.res = before.res
                            /\ Evs(Lookup(after.st.events, b)) = Evs(Lookup(before.st.events, b))]_vars

\* each thread is inside a call, after its append, for a rule of its own
C13_Witness ==
    /\ Thread("t1").pc = "write_stamps"
    /\ Thread("t2").pc = "compare"
    /\ Thread("t1").rid # Thread("t2").rid
    /\ History(Thread("t1").rid) # <<>>
    /\ History(Thread("t2").rid) # <<>>

\* C17: no update is lost: when a cleanup writes back its filtered lists,
\* every event, and every timestamp, that another add_event appended to the
\* rule after the cleanup read the lists, and that is inside the window, is
\* still there after the write.
C17_NoLostUpdate ==
    [][\A t \in ThreadIds :
          LET r == Thread(t).rid
          IN /\ (Thread(t).pc = "write_events" /\ Stepped(t))
                   => \A i \in 1..Len(History(r)) :
                         (/\ History(r)[i].sn >= Thread(t).mark
                          /\ \A j \in 1..Len(Stamps(r)) :
                                Stamps(r)[j].sn = History(r)[i].sn
                                   => Stamps(r)[j].t >= Thread(t).cutoff)
                            => History(r)[i].sn \in SerialSet(Lookup(events', r))
             /\ (Thread(t).pc = "write_stamps" /\ Stepped(t))
                   => /\ \A j \in 1..Len(Stamps(r)) :
                            (Stamps(r)[j].sn >= Thread(t).mark
                                /\ Stamps(r)[j].t >= Thread(t).cutoff)
                               => Stamps(r)[j].sn \in SerialSet(Lookup(timestamps', r))
                      /\ Serials(Lookup(events', r)) = Serials(Lookup(timestamps', r))]_vars

(***************************************************************************)
(* Coercion of the aggregated field (specification SpecCoerce): sum, min,  *)
(* max and avg over events whose field is missing, a number, a str that    *)
(* spells a number, a str that spells none, a value of another type, or an *)
(* int too large for a float; and the same functions with no field named.  *)
(* The events are recorded with add_event and evaluate is called directly. *)
(***************************************************************************)
CoerceValues == {None, IntVal(1), NumStr(3), BadStr, DateTime(0), BigInt}

\* the clauses `F(bytes) OP N` and `F() OP N`
CoerceScenarios ==
    {Scenario(OneRule(NoTimeframe, Pipe(Selection, Agg(f, "bytes", "", op, n))),
              {Event(IntVal(1), None, None, v) : v \in CoerceValues}) :
        f \in {"sum", "min", "max", "avg"}, op \in Ops, n \in {0, 2}}
    \cup
    {Scenario(OneRule(NoTimeframe, Pipe(Selection, Agg(f, "", "", op, n))),
              {Event(IntVal(1), None, None, v) : v \in CoerceValues}) :
        f \in {"sum", "avg"}, op \in {"<", "="}, n \in {0, 2}}

InitCoerce == InitWith(CoerceScenarios)

NextCoerce ==
    \/ \E r \in RuleIds, e \in feed : AddEvent(r, e)
    \/ \E r \in RuleIds, e \in feed : Evaluate(r, e)
    \/ \E r \in RuleIds : EvaluateNoEvent(r)
    \/ Reset

SpecCoerce == InitCoerce /\ [][NextCoerce]_vars

\* the last operation computed sum, min, max or avg over a history that is
\* not empty
NumericAggregate ==
    /\ last.op \in {"evaluate", "evaluate_no_event"}
    /\ LastClause.func \in {"sum", "min", "max", "avg"}
    /\ History(last.rid) # <<>>

\* the positions of the retained events whose field holds a number or a str
\* that spells one
Numeric ==
    {i \in 1..Len(History(last.rid)) :
        /\ LastClause.field # NoField
        /\ Get(History(last.rid)[i].ev, LastClause.field).k \in {"int", "numstr"}}

NumericValue(i) == Get(History(last.rid)[i].ev, LastClause.field).v

RECURSIVE Total(_)
Total(S) ==
    IF S = {} THEN 0
    ELSE LET i == CHOOSE x \in S : TRUE IN NumericValue(i) + Total(S \ {i})

\* the threshold the call compared against
ThresholdUsed == LastClause.value

\* the comparison of the aggregate of the numeric values alone, 0 when there
\* is none
OverNumericOnly ==
    IF Numeric = {} THEN CompareInt(0, LastClause.op, ThresholdUsed)
    ELSE CASE LastClause.func = "sum" ->
                 CompareInt(Total(Numeric), LastClause.op, ThresholdUsed)
           [] LastClause.func = "min" ->
                 CompareInt(Least({NumericValue(i) : i \in Numeric}),
                            LastClause.op, ThresholdUsed)
           [] LastClause.func = "max" ->
                 CompareInt(Greatest({NumericValue(i) : i \in Numeric}),
                            LastClause.op, ThresholdUsed)
           [] LastClause.func = "avg" ->
                 CompareInt(Total(Numeric), LastClause.op,
                            ThresholdUsed * Cardinality(Numeric))

\* C21: for sum, min, max and avg nothing is raised, whatever the field of
\* the retained events holds; the events whose field is missing or cannot be
\* coerced to a number are left out, the aggregate is that of the remaining
\* values, and it is 0 when none remains or when the clause names no field.
C21_DiscardsAndNeverAborts ==
    NumericAggregate
        => /\ ~last.exc
           /\ last.res = OverNumericOnly

\* the part of C21 that holds: the same, when no retained event holds an int
\* too large for a float
C21_DiscardsUnlessOverflow ==
    (/\ NumericAggregate
     /\ \A i \in 1..Len(History(last.rid)) :
           ~Overflows(Get(History(last.rid)[i].ev, "bytes")))
        => /\ ~last.exc
           /\ last.res = OverNumericOnly

\* and an int too large for a float aborts the call exactly when the clause
\* names the field
C21_OverflowAborts ==
    (/\ NumericAggregate
     /\ \E i \in 1..Len(History(last.rid)) :
           Overflows(Get(History(last.rid)[i].ev, "bytes")))
        => last.exc = (LastClause.field # NoField)

(***************************************************************************)
(* And and Or over operands of which one is a parenthesised aggregation    *)
(* sub-condition (specification SpecLogic), in rules with a timeframe of   *)
(* one second.                                                             *)
(***************************************************************************)
CountBelow2 == Agg("count", "", "", "<", 2)

\* `filter and (selection | count() > 1)`, `filter or (selection | count() > 1)`,
\* the same with the sub-condition first, and with three operands
LogicConditions ==
    { Pipe(And(<<Filter, Pipe(Selection, CountAbove1)>>), NoClause),
      Pipe(Or(<<Filter, Pipe(Selection, CountAbove1)>>), NoClause),
      Pipe(And(<<Pipe(Selection, CountAbove1), Filter>>), NoClause),
      Pipe(Or(<<Pipe(Selection, CountBelow2), Filter>>), NoClause),
      Pipe(And(<<Selection, Filter, Pipe(Selection, CountBelow2)>>), NoClause),
      Pipe(Or(<<Filter, Selection, Pipe(Selection, CountAbove1)>>), NoClause) }

\* events that match selection only (1), filter only (2), both (3), neither
\* (0), stamped by the clock
LogicFeed == {Event(IntVal(id), None, IntVal(1), IntVal(1)) : id \in 0..3}

LogicScenarios == {Scenario(OneRule(Sec(1), c), LogicFeed) : c \in LogicConditions}

InitLogic == InitWith(LogicScenarios)

NextLogic ==
    \/ \E r \in RuleIds, e \in feed : Predicate(r, e)
    \/ Reset
    \/ Tick

SpecLogic == InitLogic /\ [][NextLogic]_vars

\* the And or Or of the rule of the step, its operands, and the value that
\* decides it: false for And, true for Or
Junction == BaseOf(rules[last'.rid].cond)
Operands == Junction.args
Deciding == (Junction.t = "or")

\* the value of operand i for the event of the step, against the store as
\* the step found it
OperandValue(i) ==
    Eval(Operands[i], rules[last'.rid], last'.event, Current, now).res

\* operand k decides, and neither it nor an operand before it has a
\* sub-condition
DecidedAt(k) ==
    /\ \A i \in 1..k : ~HasPipe(Operands[i])
    /\ OperandValue(k) = Deciding
    /\ \A i \in 1..(k - 1) : OperandValue(i) # Deciding

\* the condition of the step with the operands after the k-th left out
Truncated(k) ==
    Pipe([Junction EXCEPT !.args = SubSeq(@, 1, k)], rules[last'.rid].cond.clause)

\* the conjunction or disjunction of the operand values
PlainJunction ==
    IF Junction.t = "and" THEN \A i \in 1..Len(Operands) : OperandValue(i)
    ELSE \E i \in 1..Len(Operands) : OperandValue(i)

\* C22: And and Or return the plain conjunction or disjunction of their
\* operand values; when an operand decides the result, the operands after it
\* are not evaluated: the call leaves the store, and makes the store
\* operations, that it would with those operands left out, so a
\* sub-condition with an aggregation placed after the deciding operand
\* appends nothing, expires nothing and evaluates nothing; a conjunction
\* decided so leaves the store unchanged.
C22_ShortCircuit ==
    [][(PredicateStep /\ Junction.t \in {"and", "or"})
         => /\ ~last'.exc
            /\ last'.res = PlainJunction
            /\ \A k \in 1..Len(Operands) :
                  DecidedAt(k)
                     => LET cut == Eval(Truncated(k), rules[last'.rid],
                                        last'.event, Current, now)
                        IN /\ last'.res = Deciding
                           /\ events' = cut.st.events
                           /\ timestamps' = cut.st.timestamps
                           /\ last'.log = cut.st.log
                           /\ \A i \in 1..Len(last'.log) :
                                 last'.log[i].op \notin {"evaluate", "cleanup"}
                           /\ Junction.t = "and"
                                 => /\ events' = events
                                    /\ timestamps' = timestamps
                                    /\ last'.log = <<>>]_vars

\* the rule holds an entry that a sub-condition would expire, the first
\* operand has decided the result, and a sub-condition that the event
\* matches comes after it
C22_Witness ==
    /\ last.op = "predicate"
    /\ BaseOf(rules[last.rid].cond).t \in {"and", "or"}
    /\ LET c == BaseOf(rules[last.rid].cond)
           v == Eval(c.args[1], rules[last.rid], last.event, Current, now).res
       IN /\ ~HasPipe(c.args[1])
          /\ v = (c.t = "or")
          /\ HasPipe(c.args[Len(c.args)])
          /\ c.t = "and" => match_search_id(rules[last.rid], last.event, "selection")
    /\ \E i \in 1..Len(Stamps(last.rid)) : Stamps(last.rid)[i].t < now - 1

(***************************************************************************)
(* Conditions `base | near inner` (specification SpecNear), in rules with  *)
(* no timeframe and with a timeframe of one second.                        *)
(***************************************************************************)
\* `selection | near filter`, `selection or filter | near selection and not filter`,
\* `selection | near all of them`, `selection | near (filter | count() > 1)`
NearConditions ==
    { Pipe(Selection, Near(Filter)),
      Pipe(Or(<<Selection, Filter>>), Near(And(<<Selection, Not(Filter)>>))),
      Pipe(Selection, Near(XOf(All, "them"))),
      Pipe(Selection, Near(Pipe(Filter, CountAbove1))) }

NearScenarios ==
    {Scenario(OneRule(tf, c), LogicFeed) : tf \in {NoTimeframe, Sec(1)}, c \in NearConditions}

InitNear == InitWith(NearScenarios)

SpecNear == InitNear /\ [][NextLogic]_vars

\* the step is an invocation of a predicate `base | near inner`
NearStep ==
    /\ PredicateStep
    /\ rules[last'.rid].cond.clause.t = "near"

\* the inner condition of the rule of the step
Inner == rules[last'.rid].cond.clause.cond

\* the store of the step with the event of the step appended to its rule
Appended ==
    LET r == last'.rid
    IN [Current EXCEPT
          !.events = Put(@, r, Append(History(r), [sn |-> serial, ev |-> last'.event])),
          !.timestamps = Put(@, r, Append(Stamps(r),
                [sn |-> serial, k |-> "datetime", t |-> now])),
          !.serial = serial + 1]

ParsePrefixes ==
    {<<DigitChars[a]>> : a \in 1..10}
    \cup {<<DigitChars[a], DigitChars[b]>> : a, b \in 1..10}
    \cup {<<>>, <<"x">>, <<"-", "5">>}

\* the five suffixes, and others: an unknown letter, the upper case of d, h
\* and s
ParseSuffixes == {"M", "d", "h", "m", "s", "x", "D", "H", "S"}

\* prefix and suffix, the same between spaces, a number with no suffix, and
\* no timeframe
ParseTimeframes ==
    {p \o <<c>> : p \in ParsePrefixes, c \in ParseSuffixes}
    \cup {<<" ">> \o p \o <<c, " ">> : p \in {<<"5">>, <<"1", "0">>}, c \in ParseSuffixes}
    \cup {<<"5">>, <<"1", "0">>, NoTimeframe}

ParseScenarios ==
    {Scenario(OneRule(tf, Pipe(Selection, CountAbove1)), {NoMatch}) : tf \in ParseTimeframes}

InitParse == InitWith(ParseScenarios)

\* state._parse_timeframe(rule.timeframe); res is what it returns
ParseTimeframe(r) ==
    /\ last.op # "parse"
    /\ LET parsed == _parse_timeframe(rules[r].timeframe)
       IN last' = [op |-> "parse", rid |-> r, event |-> NoEvent,
                   tf |-> rules[r].timeframe, res |-> parsed,
                   exc |-> (parsed.k = "error"), log |-> <<>>, clock |-> 0,
                   repeatOf |-> -1]
    /\ UNCHANGED <<rules, feed, events, timestamps, serial, now, matches, threads>>

NextParse == \E r \in RuleIds : ParseTimeframe(r)

SpecParse == InitParse /\ [][NextParse]_vars

\* the timeframe parsed, without the spaces around it; its last character
\* and what precedes it
Parsed == Strip(last.tf)
Suffix == Parsed[Len(Parsed)]
Prefix == SubSeq(Parsed, 1, Len(Parsed) - 1)

StrCondition(c) == [kind |-> "str", conds |-> <<c>>]
ListCondition(cs) == [kind |-> "list", conds |-> cs]

\* prepare_condition: a list becomes '(' c1 ') or (' c2 ')' ..., each string
\* a parenthesised pipe_rule, and the text is parsed as one pipe_rule
prepare_condition(raw_condition) ==
    IF raw_condition.kind = "list"
    THEN Pipe(IF Len(raw_condition.conds) = 1 THEN raw_condition.conds[1]
              ELSE Or(raw_condition.conds),
              NoClause)
    ELSE raw_condition.conds[1]

\* `selection | count() > 1`; `(selection | count() < 2) | count() > 1`;
\* `(selection | count() > 1) or filter | count() < 2`;
\* `selection and (filter | count() > 1)`; the lists ['selection', 'filter']
\* and ['selection | count() > 1']; and `selection` alone
OnceConditions ==
    { StrCondition(Pipe(Selection, CountAbove1)),
      StrCondition(Pipe(Pipe(Selection, CountBelow2), CountAbove1)),
      StrCondition(Pipe(Or(<<Pipe(Selection, CountAbove1), Filter>>), CountBelow2)),
      StrCondition(Pipe(And(<<Selection, Pipe(Filter, CountAbove1)>>), NoClause)),
      ListCondition(<<Pipe(Selection, NoClause), Pipe(Filter, NoClause)>>),
      ListCondition(<<Pipe(Selection, CountAbove1)>>),
      StrCondition(Pipe(Selection, NoClause)) }

OnceScenarios ==
    {Scenario(OneRule(tf, prepare_condition(raw)), LogicFeed) :
        tf \in {NoTimeframe, Sec(1)}, raw \in OnceConditions}

InitOnce == InitWith(OnceScenarios)

SpecOnce == InitOnce /\ [][NextLogic]_vars

\* the number of add_event calls the last invocation made, and the number
\* of entries of the rule's history that hold the serials of those calls
AppendsMade == Cardinality({i \in 1..Len(last.log) : last.log[i].op = "add_event"})

\* the number of pipe_rule closures in a condition
RECURSIVE Pipes(_)
RECURSIVE PipesIn(_, _)
PipesIn(args, n) == IF n = 0 THEN 0 ELSE Pipes(args[n]) + PipesIn(args, n - 1)
Pipes(c) ==
    CASE c.t = "pipe" ->
            1 + Pipes(c.base) + (IF c.clause.t = "near" THEN Pipes(c.clause.cond) ELSE 0)
      [] c.t = "not" -> Pipes(c.arg)
      [] c.t \in {"and", "or"} -> PipesIn(c.args, Len(c.args))
      [] OTHER -> 0

\* C25: one invocation of a rule's predicate on one event appends the event
\* to the rule's history at most once, whatever the condition.
C25_AppendsAtMostOnce ==
    last.op = "predicate" => AppendsMade <= 1

\* what holds instead: at most one append for each pipe_rule of the
\* condition, and so at most one when the condition has a single pipe_rule
C25_AppendsOncePerPipe ==
    last.op = "predicate" => AppendsMade <= Pipes(rules[last.rid].cond)

\* an invocation has appended its event twice
C25_AppendedTwice ==
    /\ last.op = "predicate"
    /\ AppendsMade = 2
    /\ Len(History(last.rid)) >= 2
    /\ History(last.rid)[Len(History(last.rid))].ev = last.event
    /\ History(last.rid)[Len(History(last.rid)) - 1].ev = last.event

(***************************************************************************)
(* The event of the invocation and the window (specification SpecWindow).  *)
(***************************************************************************)
\* the last operation was an invocation of a predicate `selection | clause`
\* on an event that matches selection: the event was appended and the
\* aggregation was evaluated
AggregatedAfterAppend ==
    /\ last.op = "predicate"
    /\ rules[last.rid].cond.clause.t = "agg"
    /\ BaseOf(rules[last.rid].cond) = Selection
    /\ match_search_id(rules[last.rid], last.event, "selection")
    /\ ~last.exc
    /\ Len(last.log) >= 2
    /\ last.log[1].op = "add_event"
    /\ last.log[Len(last.log)].op = "evaluate"

\* the event appended by the last invocation is in the history the
\* aggregate was computed over
OwnEventRetained ==
    /\ last.log[Len(last.log)].n >= 1
    /\ \E i \in 1..Len(History(last.rid)) :
          History(last.rid)[i] = [sn |-> last.log[1].sn, ev |-> last.event]

\* C26: whenever the aggregation of a pipe is evaluated, the event appended
\* in the same invocation is among the retained events the aggregate is
\* computed over, for every timeframe and every timestamp of the event.
C26_OwnEventCounted ==
    AggregatedAfterAppend => OwnEventRetained

\* what holds instead: the event is retained when the rule has no timeframe,
\* and when the event is stamped by the clock (UtcTime missing) or its
\* UtcTime is inside the window
C26_OwnEventCountedInWindow ==
    (/\ AggregatedAfterAppend
     /\ \/ rules[last.rid].timeframe = NoTimeframe
        \/ Get(last.event, "UtcTime").k = "none"
        \/ /\ Get(last.event, "UtcTime").k = "timestr"
           /\ Get(last.event, "UtcTime").v
                 >= now - _parse_timeframe(rules[last.rid].timeframe).v)
        => OwnEventRetained

\* an invocation has appended an event whose UtcTime is older than the
\* window, and evaluated the aggregate over an empty history
C26_OwnEventExpired ==
    /\ AggregatedAfterAppend
    /\ last.log[Len(last.log)].n = 0
    /\ History(last.rid) = <<>>
    /\ ~last.res

====
